---- MODULE Spec2Model ----
(***************************************************************************)
(* The webhook MCP server: the in-memory RequestStore (src/store.ts), the  *)
(* completion waiter waitForResponse and the tool handlers send_message    *)
(* and get_response of the two revisions of the server (0.1.11 and 0.4.0). *)
(*                                                                         *)
(* Time.  `now` is Date.now().  One unit of `now` is 50 ms, so the 100 ms  *)
(* sleep of waitForResponse is 2 units and a timeout can fall between two  *)
(* polls.  The long durations of the program (5 min wait, 15 min sweep     *)
(* interval, 30 min time to live) are scaled down; their order and the     *)
(* ratio ttl = 2 x sweep interval are kept.  Timers fire exactly when due  *)
(* and synchronous code takes no time: time does not advance past a timer  *)
(* that is due.  Every handler runs to its next await in one step, as the  *)
(* single-threaded event loop runs it.                                     *)
(***************************************************************************)
EXTENDS Integers, Sequences, FiniteSets, TLC

(***************************************************************************)
(* Bounds of the model.                                                    *)
(***************************************************************************)
MaxStoreTime == 5    \* the clock stops here in the store model
MaxWaitTime == 8     \* the clock stops here in the waiter model
MaxServerTime == 16  \* the clock stops here in the server model
NumIds == 2          \* request ids
MaxSendTime == 2     \* send_message is called no later than this
MaxTimeout == 5      \* largest timeoutMs passed to waitForResponse

Ids == 1..NumIds
Callers == {1, 2}     \* the concurrent tool calls

(***************************************************************************)
(* Program constants, in units of 50 ms (see above).                       *)
(***************************************************************************)
PollInterval == 2        \* setTimeout(resolve, 100)
DefaultTimeout == 3      \* timeoutMs = 300000
CleanupInterval == 4     \* cleanupIntervalMs
RequestTtl == 8          \* expiresAt: Date.now() + 30 * 60 * 1000
ResponseRetention == 16  \* responseRetentionMs: 1 hour, twice the time to live

(***************************************************************************)
(* WebhookRequest.  A record is a function from the names of the fields    *)
(* it has to their values; an optional field that is not set is not in     *)
(* its domain.  `undefined` is the result of a lookup that finds nothing.  *)
(***************************************************************************)
undefined == [undefined |-> TRUE]

Status == {"PENDING", "SENT", "COMPLETED", "FAILED", "TIMEOUT"}

VARIABLES
  now,          \* Date.now()
  requests,     \* RequestStore.requests: the Map, a function on the ids present
  nextCleanup,  \* when the setInterval of the constructor fires next
  waiter,       \* per caller: the frame of its waitForResponse call
  send,         \* per caller: the frame of its send_message call
  issued,       \* the ids generateRequestId has returned
  version,      \* which revision of the server runs
  lastCall      \* the operation completed last at this instant: arguments and result

vars == <<now, requests, nextCleanup, waiter, send, issued, version, lastCall>>

(***************************************************************************)
(* RequestStore                                                            *)
(***************************************************************************)
\* A faulty saveRequest: the Map is built anew around the record.
saveRequestAlone(reqs, request) == [id \in {request.requestId} |-> request]

\* A faulty saveRequest: a record that is there is not replaced.
saveRequestKeepFirst(reqs, request) ==
  IF request.requestId \in DOMAIN reqs
  THEN reqs
  ELSE [id \in DOMAIN reqs \cup {request.requestId} |->
          IF id = request.requestId THEN request ELSE reqs[id]]

saveRequest(reqs, request) ==
  [id \in DOMAIN reqs \cup {request.requestId} |->
     IF id = request.requestId THEN request ELSE reqs[id]]

getRequest(reqs, requestId) ==
  IF requestId \in DOMAIN reqs THEN reqs[requestId] ELSE undefined

\* A faulty Spread: { ...updates, ...request }, the stored fields win.
SpreadReversed(request, updates) ==
  [k \in DOMAIN request \cup DOMAIN updates |->
     IF k \in DOMAIN request THEN request[k] ELSE updates[k]]

\* { ...request, ...updates }
Spread(request, updates) ==
  [k \in DOMAIN request \cup DOMAIN updates |->
     IF k \in DOMAIN updates THEN updates[k] ELSE request[k]]

\* A faulty updateRequest: the `if (request)` test is missing, an unknown id is set.
updateRequestUpsert(reqs, requestId, updates) ==
  [id \in DOMAIN reqs \cup {requestId} |->
     IF id # requestId THEN reqs[id]
     ELSE IF id \in DOMAIN reqs THEN Spread(reqs[id], updates) ELSE updates]

updateRequest(reqs, requestId, updates) ==
  IF requestId \in DOMAIN reqs
  THEN [reqs EXCEPT ![requestId] = Spread(reqs[requestId], updates)]
  ELSE reqs

\* A faulty cleanup: expiresAt <= now.
cleanupInclusive(reqs, t) ==
  [id \in {i \in DOMAIN reqs : ~(reqs[i].expiresAt <= t)} |-> reqs[id]]

cleanup(reqs, t) ==
  [id \in {i \in DOMAIN reqs : ~(reqs[i].expiresAt < t)} |-> reqs[id]]

(***************************************************************************)
(* waitForResponse(requestId, timeoutMs): the frame of one call.  polls,   *)
(* sleeps, observed, atCall and returnedAt record what the call did.       *)
(***************************************************************************)
IdleWaiter ==
  [pc |-> "idle", requestId |-> 0, timeoutMs |-> 0, startTime |-> 0, wakeAt |-> 0,
   result |-> undefined, polls |-> 0, sleeps |-> 0, observed |-> undefined,
   atCall |-> undefined, returnedAt |-> 0]

\* A faulty IsDone: a record that is not there ends the wait too.
IsDoneOrAbsent(request) ==
  \/ request = undefined
  \/ request.status \in {"COMPLETED", "FAILED"}

\* request?.status === 'COMPLETED' || request?.status === 'FAILED'
IsDone(request) ==
  /\ request # undefined
  /\ "status" \in DOMAIN request
  /\ request.status \in {"COMPLETED", "FAILED"}

\* A faulty WithinTimeout: the start of the wait is not subtracted.
WithinTimeoutAbsolute(w, t) == t < w.timeoutMs

\* Date.now() - startTime < timeoutMs
WithinTimeout(w, t) == t - w.startTime < w.timeoutMs

\* The while loop, from its test to the next await (the sleep) or the return.
WaitLoop(w, reqs, t) ==
  IF WithinTimeout(w, t)
  THEN LET request == getRequest(reqs, w.requestId) IN
       IF IsDone(request)
       THEN [w EXCEPT !.pc = "returned", !.result = request, !.returnedAt = t,
                      !.polls = @ + 1, !.observed = request]
       ELSE [w EXCEPT !.pc = "sleeping", !.wakeAt = t + PollInterval,
                      !.polls = @ + 1, !.sleeps = @ + 1, !.observed = request]
  ELSE [w EXCEPT !.pc = "returned", !.result = undefined, !.returnedAt = t]

\* The call itself: it runs synchronously to its first await or to its return.
waitForResponse(requestId, timeoutMs, reqs, t) ==
  WaitLoop([IdleWaiter EXCEPT !.requestId = requestId, !.timeoutMs = timeoutMs,
                              !.startTime = t, !.atCall = getRequest(reqs, requestId)],
           reqs, t)

(***************************************************************************)
(* Inputs of the store model: the records and the partial updates a caller *)
(* of the store passes.                                                    *)
(***************************************************************************)
Hi == <<"h", "i">>
Yo == <<"y", "o">>
Blank == <<" ", " ">>
Empty == <<>>

\* Two records a caller saves under an id: they differ in content and expiry.
SampleRequests(ids) ==
  {[requestId |-> id, content |-> Hi, url |-> "https://x", status |-> "PENDING",
    sentAt |-> 0, expiresAt |-> 2] : id \in ids}
  \cup
  {[requestId |-> id, content |-> Yo, url |-> "https://y", status |-> "PENDING",
    sentAt |-> 1, expiresAt |-> CleanupInterval] : id \in ids}

SampleResponse == [status |-> 200, body |-> "ok", receivedAt |-> 1]

StatusUpdates == {[status |-> s] : s \in {"PENDING", "COMPLETED", "FAILED", "TIMEOUT"}}

SampleUpdates ==
  {[status |-> s] : s \in {"PENDING", "FAILED", "TIMEOUT"}}
    \cup {[status |-> "COMPLETED", response |-> SampleResponse]}

Timeouts == 0..MaxTimeout

NoCall == [op |-> "none"]

\* What a sweep of reqs at t took away: the statuses of the records it removed.
Removed(reqs, after) == {reqs[id].status : id \in DOMAIN reqs \ DOMAIN after}

(***************************************************************************)
(* Time                                                                    *)
(***************************************************************************)
\* A timer is due: the sweep's interval, or the sleep of a waiter.
TimerDue ==
  \/ nextCleanup = now
  \/ \E c \in Callers : waiter[c].pc = "sleeping" /\ waiter[c].wakeAt = now

Tick(limit, step) ==
  /\ now + step <= limit
  /\ ~TimerDue
  /\ now' = now + step
  /\ lastCall' = NoCall
  /\ UNCHANGED <<requests, nextCleanup, waiter, send, issued, version>>

\* A faulty CleanupTimer: the callback of the interval cannot run while a waiter
\* holds the event loop in its sleep.
CleanupTimerBlocked ==
  /\ \A c \in Callers : waiter[c].pc # "sleeping"
  /\ nextCleanup = now
  /\ requests' = cleanup(requests, now)
  /\ nextCleanup' = now + CleanupInterval
  /\ lastCall' = [op |-> "cleanup", timer |-> TRUE, removed |-> Removed(requests, requests')]
  /\ UNCHANGED <<now, waiter, send, issued, version>>

\* setInterval(() => this.cleanup(), cleanupIntervalMs)
CleanupTimer ==
  /\ nextCleanup = now
  /\ requests' = cleanup(requests, now)
  /\ nextCleanup' = now + CleanupInterval
  /\ lastCall' = [op |-> "cleanup", timer |-> TRUE, removed |-> Removed(requests, requests')]
  /\ UNCHANGED <<now, waiter, send, issued, version>>

(***************************************************************************)
(* The store, called by any caller with any arguments.                     *)
(***************************************************************************)
CallSaveRequest ==
  \E request \in SampleRequests(Ids) :
    /\ requests' = saveRequest(requests, request)
    /\ lastCall' = [op |-> "saveRequest", request |-> request]
    /\ UNCHANGED <<now, nextCleanup, waiter, send, issued, version>>

CallUpdateRequest ==
  \E requestId \in Ids, updates \in SampleUpdates :
    /\ requests' = updateRequest(requests, requestId, updates)
    /\ lastCall' = [op |-> "updateRequest", requestId |-> requestId, updates |-> updates]
    /\ UNCHANGED <<now, nextCleanup, waiter, send, issued, version>>

CallGetRequest ==
  \E requestId \in Ids :
    /\ lastCall' = [op |-> "getRequest", requestId |-> requestId,
                    result |-> getRequest(requests, requestId)]
    /\ UNCHANGED <<now, requests, nextCleanup, waiter, send, issued, version>>

CallCleanup ==
  /\ requests' = cleanup(requests, now)
  /\ lastCall' = [op |-> "cleanup", timer |-> FALSE, removed |-> Removed(requests, requests')]
  /\ UNCHANGED <<now, nextCleanup, waiter, send, issued, version>>

StoreTick == Tick(MaxStoreTime, 1)

\* The frame of a send_message call; rejected is the arguments of a call that
\* ended before it saved a record, saved is the record as the call saved it,
\* outcome is how its axios.post settled.
IdleSend ==
  [pc |-> "idle", rejected |-> undefined, requestId |-> 0, saved |-> undefined, data |-> "",
   result |-> undefined, outcome |-> undefined]

Init ==
  /\ now = 0
  /\ requests = <<>>
  /\ nextCleanup = CleanupInterval
  /\ waiter = [c \in Callers |-> IdleWaiter]
  /\ send = [c \in Callers |-> IdleSend]
  /\ issued = {}
  /\ version \in {"0.1.11", "0.4.0"}
  /\ lastCall = NoCall

StoreInit == Init /\ version = "0.4.0"

StoreNext ==
  \/ CallSaveRequest
  \/ CallGetRequest
  \/ CallUpdateRequest
  \/ CallCleanup
  \/ CleanupTimer
  \/ StoreTick

StoreSpec == StoreInit /\ [][StoreNext]_vars

(***************************************************************************)
(* The waiter, called with any id and timeout while the record of id 1 is  *)
(* saved, updated and swept; the other ids are never created.              *)
(***************************************************************************)
WaiterSave ==
  \E request \in SampleRequests({1}) :
    /\ requests' = saveRequest(requests, request)
    /\ UNCHANGED <<now, nextCleanup, waiter, send, issued, version, lastCall>>

WaiterUpdate ==
  \E updates \in StatusUpdates :
    /\ requests' = updateRequest(requests, 1, updates)
    /\ UNCHANGED <<now, nextCleanup, waiter, send, issued, version, lastCall>>

\* The guard keeps the whole wait within the clock's bound.
CallWaitForResponse ==
  \E requestId \in Ids, timeoutMs \in Timeouts :
    /\ waiter[1].pc = "idle"
    /\ now + timeoutMs + PollInterval <= MaxWaitTime
    /\ waiter' = [waiter EXCEPT ![1] = waitForResponse(requestId, timeoutMs, requests, now)]
    /\ UNCHANGED <<now, requests, nextCleanup, send, issued, version, lastCall>>

\* The sleep's timer fires: the loop goes round.
WakeWaiter ==
  \E c \in Callers :
    /\ waiter[c].pc = "sleeping"
    /\ waiter[c].wakeAt = now
    /\ send[c].pc = "idle"
    /\ waiter' = [waiter EXCEPT ![c] = WaitLoop(waiter[c], requests, now)]
    /\ UNCHANGED <<now, requests, nextCleanup, send, issued, version, lastCall>>

WaiterTick == Tick(MaxWaitTime, 1)

WaiterNext ==
  \/ WaiterSave
  \/ WaiterUpdate
  \/ CleanupTimer
  \/ CallWaitForResponse
  \/ WakeWaiter
  \/ WaiterTick

WaiterSpec == StoreInit /\ [][WaiterNext]_vars

\* The event loop runs every timer that is due, and time passes.
FairWaiterSpec ==
  WaiterSpec /\ WF_vars(WakeWaiter) /\ WF_vars(CleanupTimer) /\ WF_vars(WaiterTick)

(***************************************************************************)
(* The server: the tool handlers.  Revision 0.1.11 posts to the configured *)
(* WEBHOOK_URL and offers get_response; revision 0.4.0 takes the url as an *)
(* argument, waits with waitForResponse and registers send_message only.   *)
(***************************************************************************)
WebhookUrl == "https://x"

\* The arguments of a send_message call: well-formed ones, blank and empty
\* content, a url that does not parse, one without the url string and one
\* without the content string.  avatar_url is never passed.
SendArgs ==
  {[content |-> Hi, url |-> "https://x"],
   [content |-> Yo, url |-> "https://y", username |-> "bot"],
   [content |-> Blank, url |-> "https://x"],
   [content |-> Empty, url |-> "https://x"],
   [content |-> Hi, url |-> "not a url"],
   [content |-> Hi],
   [url |-> "https://x"]}

\* typeof content === 'string', and in 0.4.0 && typeof url === 'string'
isValidSendMessageArgs(args) ==
  /\ "content" \in DOMAIN args
  /\ version = "0.4.0" => "url" \in DOMAIN args

\* new URL(url) does not throw
isValidUrl(url) == url \in {"https://x", "https://y"}

\* String.prototype.trim
RECURSIVE TrimStart(_)
TrimStart(str) ==
  IF str # <<>> /\ Head(str) = " " THEN TrimStart(Tail(str)) ELSE str

RECURSIVE TrimEnd(_)
TrimEnd(str) ==
  IF str # <<>> /\ str[Len(str)] = " " THEN TrimEnd(SubSeq(str, 1, Len(str) - 1)) ELSE str

\* A faulty Trim: the string as it is.
NoTrim(str) == str

Trim(str) == TrimEnd(TrimStart(str))

\* randomUUID(): an id that was not returned before
generateRequestId(used) == Ids \ used

\* The record handleSendMessage saves.
NewRequest(requestId, args, url, t) ==
  Spread([requestId |-> requestId, content |-> args.content, url |-> url,
          status |-> "PENDING", sentAt |-> t, expiresAt |-> t + RequestTtl],
         [k \in DOMAIN args \cap {"username", "avatar_url"} |-> args[k]])

\* How axios.post settles: a 2xx response, an AxiosError with a response, an
\* AxiosError without one, or an error that is not an AxiosError.
AxiosOutcomes ==
  {[kind |-> "response", status |-> 200, data |-> "ok"],
   [kind |-> "axiosError", status |-> 500, message |-> "boom"],
   [kind |-> "axiosError", message |-> "ECONNREFUSED"],
   [kind |-> "error"]}

\* A faulty CompletedUpdate: the response renews the record's time to live.
CompletedUpdateRenewing(outcome, t) ==
  [status |-> "COMPLETED",
   response |-> [status |-> outcome.status, headers |-> "headers",
                 body |-> outcome.data, receivedAt |-> t],
   expiresAt |-> t + RequestTtl]

\* The update of the success path.
CompletedUpdate(outcome, t) ==
  [status |-> "COMPLETED",
   response |-> [status |-> outcome.status, headers |-> "headers",
                 body |-> outcome.data, receivedAt |-> t]]

\* A faulty FailedUpdate: the error's response is stored and the status is not.
FailedUpdateStatusless(outcome, t) ==
  [response |-> [status |-> IF "status" \in DOMAIN outcome THEN outcome.status ELSE 0,
                 body |-> outcome.message, receivedAt |-> t]]

\* A faulty FailedUpdate: the status code of the error's response is dropped.
FailedUpdateNoCode(outcome, t) ==
  [status |-> "FAILED",
   response |-> [status |-> 0, body |-> outcome.message, receivedAt |-> t]]

\* The update of the catch block: error.response?.status || 0
FailedUpdate(outcome, t) ==
  [status |-> "FAILED",
   response |-> [status |-> IF "status" \in DOMAIN outcome THEN outcome.status ELSE 0,
                 body |-> outcome.message, receivedAt |-> t]]

ErrorResult(text) == [isError |-> TRUE, text |-> text]

\* finalRequest?.status || 'COMPLETED', finalRequest?.response?.body || response.data
SentResult(finalRequest, data) ==
  [isError |-> FALSE, text |-> "Message sent successfully.",
   status |-> IF finalRequest # undefined THEN finalRequest.status ELSE "COMPLETED",
   body |-> IF finalRequest # undefined /\ "response" \in DOMAIN finalRequest
            THEN finalRequest.response.body ELSE data]

\* handleSendMessage, from the call to the await of axios.post.
SendMessage ==
  \E c \in Callers, args \in SendArgs :
    /\ send[c].pc = "idle"
    /\ now <= MaxSendTime
    /\ lastCall' = NoCall
    /\ IF ~isValidSendMessageArgs(args)
       THEN /\ send' = [send EXCEPT ![c].pc = "thrown", ![c].rejected = args]
            /\ UNCHANGED <<requests, issued>>
       ELSE IF Trim(args.content) = <<>>
       THEN /\ send' = [send EXCEPT ![c].pc = "returned", ![c].rejected = args,
                          ![c].result = ErrorResult("Error: Message content cannot be empty")]
            /\ UNCHANGED <<requests, issued>>
       ELSE IF version = "0.4.0" /\ ~isValidUrl(args.url)
       THEN /\ send' = [send EXCEPT ![c].pc = "returned", ![c].rejected = args,
                          ![c].result = ErrorResult("Error: Invalid webhook URL format")]
            /\ UNCHANGED <<requests, issued>>
       ELSE \E requestId \in generateRequestId(issued) :
              LET url == IF version = "0.4.0" THEN args.url ELSE WebhookUrl IN
              /\ issued' = issued \cup {requestId}
              /\ requests' = saveRequest(requests, NewRequest(requestId, args, url, now))
              /\ send' = [send EXCEPT ![c].pc = "posting", ![c].requestId = requestId,
                                      ![c].saved = NewRequest(requestId, args, url, now)]
    /\ UNCHANGED <<now, nextCleanup, waiter, version>>

\* handleSendMessage, from the settling of axios.post to the return or to the
\* first sleep of waitForResponse.
PostSettles ==
  \E c \in Callers, outcome \in AxiosOutcomes :
    LET requestId == send[c].requestId IN
    /\ send[c].pc = "posting"
    /\ lastCall' = NoCall
    /\ CASE outcome.kind = "response" ->
             LET updated == updateRequest(requests, requestId, CompletedUpdate(outcome, now))
                 w == waitForResponse(requestId, DefaultTimeout, updated, now)
             IN  /\ requests' = updated
                 /\ IF version = "0.1.11"
                    THEN /\ send' = [send EXCEPT ![c].pc = "returned",
                                       ![c].outcome = outcome,
                                       ![c].result = [isError |-> FALSE,
                                                      text |-> "Message sent successfully.",
                                                      requestId |-> requestId]]
                         /\ UNCHANGED waiter
                    ELSE /\ waiter' = [waiter EXCEPT ![c] = w]
                         /\ send' = [send EXCEPT
                              ![c].pc = IF w.pc = "returned" THEN "returned" ELSE "waiting",
                              ![c].data = outcome.data,
                              ![c].outcome = outcome,
                              ![c].result = IF w.pc = "returned"
                                            THEN SentResult(w.result, outcome.data)
                                            ELSE undefined]
         [] outcome.kind = "axiosError" ->
             /\ requests' = updateRequest(requests, requestId, FailedUpdate(outcome, now))
             /\ send' = [send EXCEPT ![c].pc = "returned",
                                     ![c].outcome = outcome,
                                     ![c].result = [isError |-> TRUE, text |-> "Webhook error",
                                                    message |-> outcome.message]]
             /\ UNCHANGED waiter
         [] outcome.kind = "error" ->
             /\ send' = [send EXCEPT ![c].pc = "thrown", ![c].outcome = outcome]
             /\ UNCHANGED <<requests, waiter>>
    /\ UNCHANGED <<now, nextCleanup, issued, version>>

\* The sleep of the handler's waitForResponse ends: the loop goes round, and the
\* handler returns when the wait does.
SendWakes ==
  \E c \in Callers :
    LET w == WaitLoop(waiter[c], requests, now) IN
    /\ send[c].pc = "waiting"
    /\ waiter[c].pc = "sleeping"
    /\ waiter[c].wakeAt = now
    /\ waiter' = [waiter EXCEPT ![c] = w]
    /\ send' = [send EXCEPT
         ![c].pc = IF w.pc = "returned" THEN "returned" ELSE "waiting",
         ![c].result = IF w.pc = "returned" THEN SentResult(w.result, send[c].data)
                       ELSE undefined]
    /\ lastCall' = NoCall
    /\ UNCHANGED <<now, requests, nextCleanup, issued, version>>

\* A faulty IsExpiredPending: the status is not looked at.
IsExpiredAnyStatus(request, t) == t > request.expiresAt

\* A faulty IsExpiredPending: Date.now() >= request.expiresAt.
IsExpiredPendingInclusive(request, t) ==
  request.status = "PENDING" /\ t >= request.expiresAt

\* request.status === 'PENDING' && Date.now() > request.expiresAt
IsExpiredPending(request, t) == request.status = "PENDING" /\ t > request.expiresAt

\* handleGetResponse: it has no await and runs in one piece.
handleGetResponse(reqs, requestId, t) ==
  LET request == getRequest(reqs, requestId) IN
  IF request = undefined
  THEN [store |-> reqs, result |-> ErrorResult("Request not found")]
  ELSE IF IsExpiredPending(request, t)
  THEN [store |-> updateRequest(reqs, requestId, [status |-> "TIMEOUT"]),
        result |-> ErrorResult("Request timed out")]
  ELSE [store |-> reqs,
        result |-> [isError |-> FALSE, status |-> request.status,
                    body |-> IF "response" \in DOMAIN request THEN request.response.body
                             ELSE "No response data"]]

\* The get_response tool, which revision 0.1.11 registers.
GetResponse ==
  \E requestId \in Ids :
    LET r == handleGetResponse(requests, requestId, now) IN
    /\ version = "0.1.11"
    /\ requests' = r.store
    /\ lastCall' = [op |-> "get_response", requestId |-> requestId, result |-> r.result]
    /\ UNCHANGED <<now, nextCleanup, waiter, send, issued, version>>

\* The server model's clock advances by one poll interval at a time.
ServerTick == Tick(MaxServerTime, PollInterval)

Next ==
  \/ SendMessage
  \/ PostSettles
  \/ SendWakes
  \/ GetResponse
  \/ CleanupTimer
  \/ ServerTick

Spec == Init /\ [][Next]_vars

(***************************************************************************)
(* Properties of the store                                                 *)
(***************************************************************************)
Terminal == {"COMPLETED", "FAILED", "TIMEOUT"}

\* A step that completes a call of the store operation op.
Called(op) == lastCall' # lastCall /\ lastCall'.op = op

\* C2: a lookup that finds a record PENDING after its expiresAt returns it with
\* status TIMEOUT and leaves TIMEOUT stored: no lookup made after expiresAt
\* returns or leaves behind PENDING.
C2_LazyExpiryOnRead ==
  (/\ lastCall.op = "getRequest"
   /\ lastCall.result # undefined
   /\ now > lastCall.result.expiresAt)
  => /\ lastCall.result.status # "PENDING"
     /\ getRequest(requests, lastCall.requestId).status # "PENDING"

\* C3: saveRequest with a requestId that is already in the store does not
\* replace the stored record: the store is left as it was.
C3_CreateNeverOverwrites ==
  [][(Called("saveRequest") /\ lastCall'.request.requestId \in DOMAIN requests)
       => requests' = requests]_vars

\* C4: updateRequest(id, fields) on a stored record leaves a record that has the
\* supplied value in every supplied field and the previous value in every other
\* field, and no other fields.
C4_PartialUpdatePreserves ==
  [][(Called("updateRequest") /\ lastCall'.requestId \in DOMAIN requests)
       => LET id == lastCall'.requestId
              updates == lastCall'.updates
          IN  /\ id \in DOMAIN requests'
              /\ DOMAIN requests'[id] = DOMAIN requests[id] \cup DOMAIN updates
              /\ \A k \in DOMAIN updates : requests'[id][k] = updates[k]
              /\ \A k \in DOMAIN requests[id] \ DOMAIN updates :
                    requests'[id][k] = requests[id][k]]_vars

\* An update that supplied status and response was applied to the second sample
\* record, whose content, url, sentAt and expiresAt are not the first one's.
C4_Witness ==
  /\ lastCall.op = "updateRequest"
  /\ "response" \in DOMAIN lastCall.updates
  /\ lastCall.requestId \in DOMAIN requests
  /\ requests[lastCall.requestId].content = Yo
  /\ requests[lastCall.requestId].status = "COMPLETED"

\* C5: after cleanup() at time now the store holds exactly the records it held
\* before whose expiresAt >= now, each unchanged; the others are removed whatever
\* their status.
C5_SweepPostcondition ==
  [][Called("cleanup")
       => /\ DOMAIN requests' = {id \in DOMAIN requests : requests[id].expiresAt >= now}
          /\ \A id \in DOMAIN requests' : requests'[id] = requests[id]]_vars

\* A sweep removed a terminal record and kept a record that expires at this very
\* instant.
C5_Witness ==
  /\ lastCall.op = "cleanup"
  /\ lastCall.removed \cap Terminal # {}
  /\ \E id \in DOMAIN requests : requests[id].expiresAt = now

\* C7: updateRequest on an id that is not in the store leaves the whole store
\* unchanged and does not create the record: a lookup of the id is still absent.
C7_UpdateUnknownIsNoOp ==
  [][(Called("updateRequest") /\ lastCall'.requestId \notin DOMAIN requests)
       => /\ requests' = requests
          /\ getRequest(requests', lastCall'.requestId) = undefined]_vars

\* After the sweep has run, an update names an id that is not in the store while
\* another record is.
C7_Witness ==
  /\ lastCall.op = "updateRequest"
  /\ lastCall.requestId \notin DOMAIN requests
  /\ DOMAIN requests # {}
  /\ nextCleanup > CleanupInterval

(***************************************************************************)
(* Properties of the server                                                *)
(***************************************************************************)
\* C1: once a stored record's status is COMPLETED, FAILED or TIMEOUT, no step of
\* send_message, get_response or the sweep changes it to another status.
C1_TerminalStatesPermanent ==
  [][\A id \in DOMAIN requests \cap DOMAIN requests' :
       requests[id].status \in Terminal => requests'[id].status = requests[id].status]_vars

\* C6: a record created by send_message is returned by a lookup at every time up
\* to its expiresAt, whatever its status; a record leaves the store only in a
\* sweep, and only when its expiresAt has passed.
C6_ReachableUntilExpiry ==
  /\ [](\A c \in Callers :
         (send[c].saved # undefined /\ now <= send[c].saved.expiresAt)
         => /\ getRequest(requests, send[c].requestId) # undefined
            /\ getRequest(requests, send[c].requestId).requestId = send[c].requestId)
  /\ [][\A id \in DOMAIN requests \ DOMAIN requests' :
          /\ requests[id].expiresAt < now
          /\ lastCall'.op = "cleanup"
          /\ nextCleanup' # nextCleanup]_vars

\* A sweep has just run at the very instant a terminal record expires, another
\* call's record is PENDING, and both are still in the store.
C6_Witness ==
  /\ lastCall.op = "cleanup"
  /\ send[1].saved # undefined
  /\ send[2].saved # undefined
  /\ send[1].saved.expiresAt = now
  /\ send[1].requestId \in DOMAIN requests
  /\ send[2].requestId \in DOMAIN requests
  /\ requests[send[1].requestId].status = "FAILED"
  /\ requests[send[2].requestId].status = "PENDING"

(***************************************************************************)
(* Properties of the waiter                                                *)
(***************************************************************************)
\* C8: a poll made before the deadline that observes the record COMPLETED, FAILED
\* or TIMEOUT makes waitForResponse return that record at that poll.
C8_WaiterReturnsOnTerminal ==
  \A c \in Callers :
    (/\ waiter[c].polls > 0
     /\ waiter[c].observed # undefined
     /\ waiter[c].observed.status \in Terminal)
    => /\ waiter[c].pc = "returned"
       /\ waiter[c].result = waiter[c].observed

\* C9: a record that is terminal when waitForResponse(id, timeout) is called is
\* returned by the first check, without a sleep, whatever the timeout.
C9_TerminalAtCallReturnsAtOnce ==
  \A c \in Callers :
    (/\ waiter[c].pc # "idle"
     /\ waiter[c].atCall # undefined
     /\ waiter[c].atCall.status \in Terminal)
    => /\ waiter[c].pc = "returned"
       /\ waiter[c].result = waiter[c].atCall
       /\ waiter[c].sleeps = 0

\* What a finished wait looks like: a record is returned only if a poll saw it
\* terminal; absent is returned no earlier than timeoutMs after the call and no
\* later than timeoutMs plus one poll interval, after two reads or more when
\* timeoutMs exceeds the poll interval.
WaitOutcome(w) ==
  LET elapsed == w.returnedAt - w.startTime IN
  /\ w.result # undefined => w.result.status \in Terminal
  /\ w.result = undefined =>
       /\ elapsed >= w.timeoutMs
       /\ elapsed <= w.timeoutMs + PollInterval
       /\ w.timeoutMs > PollInterval => w.polls >= 2

PollsUntilTimeout(timeoutMs) == (timeoutMs + PollInterval - 1) \div PollInterval

\* C11: a poll that finds no record (an id that was never saved, or a record the
\* sweep removed during the wait) does not end the wait: the waiter sleeps one
\* poll interval and polls again; a wait whose last poll found nothing, and every
\* wait on an id that is never saved (every id but 1), ends, not before
\* timeoutMs has elapsed, with the result absent, after every poll the timeout
\* allows; a wait that sleeps after finding nothing does end.
C11_AbsentKeepsPolling ==
  /\ [](\A c \in Callers :
         (waiter[c].polls > 0 /\ waiter[c].observed = undefined)
         => \/ /\ waiter[c].pc = "sleeping"
               /\ waiter[c].wakeAt - waiter[c].startTime = waiter[c].polls * PollInterval
            \/ /\ waiter[c].pc = "returned"
               /\ waiter[c].result = undefined
               /\ waiter[c].returnedAt - waiter[c].startTime >= waiter[c].timeoutMs
               /\ waiter[c].polls = PollsUntilTimeout(waiter[c].timeoutMs))
  /\ [](\A c \in Callers :
         (waiter[c].pc = "returned" /\ waiter[c].requestId # 1)
         => /\ waiter[c].result = undefined
            /\ waiter[c].returnedAt - waiter[c].startTime >= waiter[c].timeoutMs
            /\ waiter[c].polls = PollsUntilTimeout(waiter[c].timeoutMs))
  /\ \A c \in Callers :
       (waiter[c].pc = "sleeping" /\ waiter[c].observed = undefined)
         ~> /\ waiter[c].pc = "returned"
            /\ waiter[c].requestId # 1 => waiter[c].result = undefined

\* The record was PENDING when the wait began, the sweep removed it during the
\* wait, the second poll found nothing and the wait came back absent at its
\* timeout.
C11_Witness ==
  /\ waiter[1].pc = "returned"
  /\ waiter[1].requestId = 1
  /\ waiter[1].atCall # undefined
  /\ waiter[1].observed = undefined
  /\ waiter[1].result = undefined
  /\ waiter[1].polls = 2
  /\ waiter[1].timeoutMs = 3

(***************************************************************************)
(* Properties of send_message                                              *)
(***************************************************************************)
\* The call of caller c saved a record and its axios.post has settled.
DispatchEnded(c) == send[c].saved # undefined /\ send[c].pc # "posting"

\* C12: once the outbound call of a send_message has ended, in a response, an
\* AxiosError or any other exception, the record it saved, if still in the
\* store, has been updated to COMPLETED or FAILED: it is not PENDING.
C12_DispatchAlwaysReported ==
  \A c \in Callers :
    (DispatchEnded(c) /\ send[c].requestId \in DOMAIN requests)
    => requests[send[c].requestId].status # "PENDING"

C14_KeptForRetention ==
  \A c \in Callers :
    (send[c].saved # undefined /\ now <= send[c].saved.sentAt + ResponseRetention)
    => getRequest(requests, send[c].requestId) # undefined

\* C15: in revision 0.4.0 a send_message whose webhook has not answered returns
\* to its caller within the response timeout (DefaultTimeout, give or take one
\* poll interval) of sending: it is not still suspended after that.
C15_SendReturnsWithinTimeout ==
  \A c \in Callers :
    (version = "0.4.0" /\ send[c].pc \in {"posting", "waiting"})
    => now - send[c].saved.sentAt <= DefaultTimeout + PollInterval

IsBlank(str) == \A i \in 1..Len(str) : str[i] = " "

\* The arguments carry content that is blank or, in revision 0.4.0 where the url
\* is an argument, a url that does not parse.
Malformed(args) ==
  /\ "content" \in DOMAIN args
  /\ \/ IsBlank(args.content)
     \/ version = "0.4.0" /\ "url" \in DOMAIN args /\ ~isValidUrl(args.url)

\* C17: a send_message called with blank content or with a url that does not
\* parse returns an error result in the step of the call, with the store and the
\* ids handed out exactly as they were and no post begun; and no record that a
\* send_message saved or posts has blank content or such a url.
C17_ValidationBeforeCore ==
  /\ [](\A c \in Callers :
         send[c].saved # undefined => ~Malformed(send[c].saved))
  /\ [](\A id \in DOMAIN requests : ~Malformed(requests[id]))
  /\ [][\A c \in Callers :
         (/\ send[c].pc = "idle"
          /\ send'[c].pc # "idle"
          /\ send'[c].rejected # undefined
          /\ Malformed(send'[c].rejected))
         => /\ send'[c].pc = "returned"
            /\ send'[c].result.isError = TRUE
            /\ send'[c].saved = undefined
            /\ requests' = requests
            /\ issued' = issued]_vars

\* While the record of another call is in the store, a call with content of two
\* spaces was turned away, in revision 0.4.0 where a call with a bad url could be
\* too.
C17_Witness ==
  /\ version = "0.4.0"
  /\ send[1].pc = "returned"
  /\ send[1].rejected # undefined
  /\ "content" \in DOMAIN send[1].rejected
  /\ send[1].rejected.content = Blank
  /\ send[1].result.isError = TRUE
  /\ send[2].saved # undefined
  /\ DOMAIN requests = {send[2].requestId}

C19_ResponseOnlyOnceTerminal ==
  \A id \in DOMAIN requests :
    "response" \in DOMAIN requests[id] => requests[id].status # "PENDING"

\* The store holds a FAILED record with the response of the error and a PENDING
\* record that has none yet.
C19_Witness ==
  /\ send[1].requestId \in DOMAIN requests
  /\ send[2].requestId \in DOMAIN requests
  /\ requests[send[1].requestId].status = "FAILED"
  /\ "response" \in DOMAIN requests[send[1].requestId]
  /\ requests[send[2].requestId].status = "PENDING"
  /\ "response" \notin DOMAIN requests[send[2].requestId]

(***************************************************************************)
(* Properties of the interleaving of the handlers                          *)
(***************************************************************************)
\* C21: no step sets a record that is COMPLETED or FAILED to TIMEOUT or changes
\* its response, and a get_response of such a record, past its expiresAt or
\* not, leaves the whole store as it was and reports the record's status.
C21_ExpiryCheckSparesTerminal ==
  /\ [][\A id \in DOMAIN requests \cap DOMAIN requests' :
          requests[id].status \in {"COMPLETED", "FAILED"}
          => /\ requests'[id].status # "TIMEOUT"
             /\ requests'[id].response = requests[id].response]_vars
  /\ [][(/\ Called("get_response")
          /\ lastCall'.requestId \in DOMAIN requests
          /\ requests[lastCall'.requestId].status \in {"COMPLETED", "FAILED"})
         => /\ requests' = requests
            /\ lastCall'.result.isError = FALSE
            /\ lastCall'.result.status = requests[lastCall'.requestId].status]_vars

\* get_response has just read a record that the response of the webhook had
\* completed and whose expiresAt has passed; the record is still COMPLETED.
C21_Witness ==
  /\ lastCall.op = "get_response"
  /\ lastCall.requestId \in DOMAIN requests
  /\ requests[lastCall.requestId].status = "COMPLETED"
  /\ now > requests[lastCall.requestId].expiresAt
  /\ lastCall.result.status = "COMPLETED"
  /\ lastCall.result.body = "ok"

\* C22: a getRequest(id) made right after a saveRequest of that id returns the
\* record that was saved; made right after an updateRequest of that id it
\* returns a record with the supplied value in every supplied field, or absent
\* if the id was not in the store; made right after a sweep it returns no record
\* that the sweep had to remove.
C22_NoStaleReads ==
  [][Called("getRequest")
       => LET id == lastCall'.requestId
              result == lastCall'.result
          IN  /\ (lastCall.op = "saveRequest" /\ lastCall.request.requestId = id)
                   => result = lastCall.request
              /\ (lastCall.op = "updateRequest" /\ lastCall.requestId = id)
                   => /\ result = undefined <=> id \notin DOMAIN requests
                      /\ result # undefined
                           => \A k \in DOMAIN lastCall.updates : result[k] = lastCall.updates[k]
              /\ lastCall.op = "cleanup"
                   => (result # undefined => result.expiresAt >= now)]_vars

\* A lookup returned the second record saved under its id, as the update that
\* followed left it: COMPLETED, with the response.
C22_Witness ==
  /\ lastCall.op = "getRequest"
  /\ lastCall.result # undefined
  /\ lastCall.result.content = Yo
  /\ lastCall.result.status = "COMPLETED"
  /\ lastCall.result.response = SampleResponse
  /\ Cardinality(DOMAIN requests) = 2

C24_OtherRecordsUntouched ==
  [][/\ Called("saveRequest")
          => /\ DOMAIN requests' = DOMAIN requests \cup {lastCall'.request.requestId}
             /\ \A id \in DOMAIN requests \ {lastCall'.request.requestId} :
                   requests'[id] = requests[id]
     /\ Called("updateRequest")
          => /\ DOMAIN requests' = DOMAIN requests
             /\ \A id \in DOMAIN requests \ {lastCall'.requestId} :
                   requests'[id] = requests[id]
     /\ Called("getRequest") => requests' = requests]_vars

\* An update has just set one record to FAILED while the other record of the
\* store is COMPLETED with its response.
C24_Witness ==
  /\ lastCall.op = "updateRequest"
  /\ lastCall.updates.status = "FAILED"
  /\ lastCall.requestId \in DOMAIN requests
  /\ requests[lastCall.requestId].status = "FAILED"
  /\ \E id \in DOMAIN requests \ {lastCall.requestId} :
       /\ requests[id].status = "COMPLETED"
       /\ requests[id].response = SampleResponse

\* C25: in revision 0.4.0, once axios.post has resolved with a response, the
\* send_message has returned, its waitForResponse having made one read and no
\* sleep, and it reports COMPLETED with the body of the response.
C25_WaitEndsOnFirstPoll ==
  \A c \in Callers :
    (/\ version = "0.4.0"
     /\ send[c].outcome # undefined
     /\ send[c].outcome.kind = "response")
    => /\ send[c].pc = "returned"
       /\ waiter[c].polls = 1
       /\ waiter[c].sleeps = 0
       /\ send[c].result.status = "COMPLETED"
       /\ send[c].result.body = send[c].outcome.data

====
